---- MODULE Spec2Model ----
(***************************************************************************)
(* diesel-dtrace: DTraceConnection<C>, a diesel Connection wrapper that    *)
(* brackets the calls it delegates to the wrapped connection C with USDT   *)
(* probes, and DTraceTransactionManager<C>, which reports the transaction  *)
(* depth read from the wrapped connection's AnsiTransactionManager.        *)
(*                                                                         *)
(* Each thread owns at most one DTraceConnection.  trace[t] is the         *)
(* sequence of everything observable that thread t did, in program order:  *)
(* the call of a wrapper method, the probe sites it executed, the reads of *)
(* the transaction depth, the call it delegated to the wrapped connection  *)
(* (with its result) and the wrapper's return (with its result).           *)
(***************************************************************************)
EXTENDS Integers, Sequences, FiniteSets, TLC

\* ------------------------------------------------------------------ bounds
\* Number of wrapper calls (and listener attach/detach events) in a run.
MaxOps == 4
\* Number of transaction operations in a run of the transaction workload.
MaxTxOps == 7

Threads == {"t1", "t2"}
\* The thread that runs the transaction workload.
TxThread == "t1"
Urls == {"postgresql://localhost:5432"}
Queries == {"SELECT 1"}

VARIABLES
    enabled,    \* whether a DTrace consumer has the diesel_db probes enabled
    uids,       \* number of usdt UniqueId values handed out so far
    uuids,      \* number of Uuid::new_v4() values generated so far
    conn,       \* conn[t]: the DTraceConnection of thread t (inner, id)
    pc,         \* pc[t]: "idle", the wrapper method t is inside, or "cursor"
                \* while t holds the cursor a load returned
    cur,        \* cur[t]: the locals of the method t is inside
    trace,      \* trace[t]: what t did so far
    nops        \* wrapper calls made so far

vars == <<enabled, uids, uuids, conn, pc, cur, trace, nops>>

NoUid == 0
NoConn == 0
NoText == ""
NoRes == "-"

\* ------------------------------------------------------------ trace events
Ev(k, op, uid, cid, text, depth, flag, res, fired) ==
    [k |-> k, op |-> op, uid |-> uid, conn |-> cid, text |-> text,
     depth |-> depth, flag |-> flag, res |-> res, fired |-> fired]

\* A wrapper method is entered with argument text.
Call(op, text) == Ev("call", op, NoUid, NoConn, text, 0, 0, NoRes, FALSE)
\* The call delegated to the wrapped connection, and what it returned.
Inner(op, text, res) == Ev("inner", op, NoUid, NoConn, text, 0, 0, res, FALSE)
\* A call delegated to the wrapped AnsiTransactionManager: what it returned
\* and the status it left (depth: open transactions, flag: 1 Valid, 0 InError).
\* What the caller does with the cursor a load returned: k is "next" or
\* "drop", res what the wrapped cursor yielded.
CursorEv(k, res) == Ev(k, "load", NoUid, NoConn, NoText, 0, 0, res, FALSE)
InnerTx(op, out) ==
    Ev("inner", op, NoUid, NoConn, NoText, out.tm.depth,
       IF out.tm.valid THEN 1 ELSE 0, out.res, FALSE)
\* The wrapper method returns res (cid: the id of the connection it returns).
Ret(op, cid, res) == Ev("ret", op, NoUid, cid, NoText, 0, 0, res, FALSE)
\* Self::depth(conn) was evaluated and gave d.
DepthRead(d) == Ev("depth", "depth", NoUid, NoConn, NoText, d, 0, NoRes, FALSE)

\* Mutant: the arguments are built before the enabled check.
Site_eager_arguments(k, en, uid, cid, text, depth, flag) ==
    Ev(k, "probe", uid, cid, text, depth, flag, NoRes, en)

\* A usdt probe site: the argument closure is evaluated, and the probe
\* emitted, only while the probe is enabled.
Site(k, en, uid, cid, text, depth, flag) ==
    IF en THEN Ev(k, "probe", uid, cid, text, depth, flag, NoRes, TRUE)
          ELSE Ev(k, "probe", NoUid, NoConn, NoText, 0, 0, NoRes, FALSE)

connection__establish__start(en, id, conn_id, url) ==
    Site("connection__establish__start", en, id, conn_id, url, 0, 0)
connection__establish__done(en, id, conn_id, success) ==
    Site("connection__establish__done", en, id, conn_id, NoText, 0, success)
query__start(en, id, conn_id, query) ==
    Site("query__start", en, id, conn_id, query, 0, 0)
query__done(en, id, conn_id) ==
    Site("query__done", en, id, conn_id, NoText, 0, 0)
transaction__start(en, conn_id, depth) ==
    Site("transaction__start", en, NoUid, conn_id, NoText, depth, 0)
transaction__done(en, conn_id, depth, committed) ==
    Site("transaction__done", en, NoUid, conn_id, NoText, depth, committed)


\* ------------------------------------------------- the wrapped connection C
\* TransactionManagerStatus of the wrapped connection's AnsiTransactionManager:
\* Valid with depth open transactions (0: in_transaction = None), or InError.
Valid(d) == [valid |-> TRUE, depth |-> d]
InError == [valid |-> FALSE, depth |-> 0]

\* TransactionManagerStatus::transaction_depth: Ok(None) as <<"Ok", 0>>,
\* Ok(Some(d)) as <<"Ok", d>>, Err(BrokenTransactionManager) as <<"Err", 0>>.
transaction_depth(status) ==
    IF status.valid THEN <<"Ok", status.depth>> ELSE <<"Err", 0>>

Out(res, tm) == [res |-> res, tm |-> tm]

\* AnsiTransactionManager::begin_transaction(&mut conn.inner): what it may
\* return and the status it leaves.  A broken manager refuses; otherwise
\* BEGIN / SAVEPOINT either runs (one more open transaction) or fails
\* (status untouched).
inner_begin_transaction(tm) ==
    IF ~tm.valid THEN {Out("Err", tm)}
    ELSE {Out("Ok", Valid(tm.depth + 1)), Out("Err", tm)}

\* AnsiTransactionManager::commit_transaction(&mut conn.inner).  Without an
\* open transaction it fails (NotInTransaction).  Otherwise COMMIT / RELEASE
\* SAVEPOINT runs (one less open transaction) or fails: the status is then
\* left as it was, or the manager rolled the transaction back instead, or it
\* is left broken.
inner_commit_transaction(tm) ==
    IF ~tm.valid \/ tm.depth = 0 THEN {Out("Err", tm)}
    ELSE {Out("Ok", Valid(tm.depth - 1)), Out("Err", tm),
          Out("Err", Valid(tm.depth - 1)), Out("Err", InError)}

\* AnsiTransactionManager::rollback_transaction(&mut conn.inner).  On a
\* failed ROLLBACK the manager drops a nested level and is broken at the top
\* level.
inner_rollback_transaction(tm) ==
    IF ~tm.valid \/ tm.depth = 0 THEN {Out("Err", tm)}
    ELSE {Out("Ok", Valid(tm.depth - 1)),
          Out("Err", IF tm.depth > 1 THEN Valid(tm.depth - 1) ELSE InError)}

\* Results of the wrapped connection's other methods.
EstablishResults == {"Ok", "Err"}
UnitResults == {"Ok", "Err"}
CountResults == {"Ok(0)", "Ok(1)", "Err"}
CursorResults == {"Ok(cursor)", "Err"}
CursorRows == {"Some(Ok(row))", "Some(Err)", "None"}

\* diesel::debug_query(&query).to_string(): the SQL followed by its binds.
debug_query(query) == query \o " -- binds: []"

\* ------------------------------------------------------- DTraceConnection
NoConnection == [open |-> FALSE, id |-> NoConn, tm |-> Valid(0)]
DTraceConnection(inner_tm, id) == [open |-> TRUE, id |-> id, tm |-> inner_tm]

Idle == [op |-> "idle", arg |-> NoText, id |-> NoUid, conn_id |-> NoConn]
Locals(op, arg, id, conn_id) ==
    [op |-> op, arg |-> arg, id |-> id, conn_id |-> conn_id]

\* UniqueId::new(): the next value of the process-wide counter.
\* Mutant: every operation is given the same correlation id.
UniqueId_new_constant(n) == 1
UniqueId_new(n) == n + 1
\* Mutant: every call returns the same value.
Uuid_new_v4_constant(n) == 1

\* Uuid::new_v4(): a value no earlier call returned.
Uuid_new_v4(n) == n + 1

\* DTraceConnection::id
id(c) == c.id

\* Mutant: the read takes the status out of the manager (std::mem::take),
\* leaving the default one.
depth_status_taken(c) == [valid |-> TRUE, depth |-> 0]

\* DTraceTransactionManager::depth borrows the status through
\* transaction_manager_status_mut and reads it with transaction_depth(&self):
\* the status the wrapped manager holds once depth has returned.
depth_status(c) == c.tm

\* Mutant: an unreadable status is reported as depth 0.
depth_err_as_zero(c) ==
    LET status == transaction_depth(c.tm) IN
    IF status[1] = "Ok" /\ status[2] > 0 THEN status[2] ELSE 0

\* DTraceTransactionManager::depth
depth(c) ==
    LET status == transaction_depth(c.tm) IN
    IF status[1] = "Ok" /\ status[2] > 0 THEN status[2]
    ELSE IF status[1] = "Ok" THEN 0
    ELSE -1

\* ------------------------------------------------ the wrapper's methods
\* Each operator gives, in program order, what one part of a method does.

\* Connection::establish, up to the delegated call.
establish_enter(en, uid, conn_id, database_url) ==
    << Call("establish", database_url),
       connection__establish__start(en, uid, conn_id, database_url) >>

\* Mutant: `C::establish(database_url)?` returns before the done probe.
establish_exit_early_return(en, uid, conn_id, database_url, res) ==
    IF res = "Ok"
    THEN << Inner("establish", database_url, res),
            connection__establish__done(en, uid, conn_id, 1),
            Ret("establish", conn_id, res) >>
    ELSE << Inner("establish", database_url, res), Ret("establish", NoConn, res) >>

\* Connection::establish, from the delegated call C::establish on.
establish_exit(en, uid, conn_id, database_url, res) ==
    << Inner("establish", database_url, res),
       connection__establish__done(en, uid, conn_id, IF res = "Ok" THEN 1 ELSE 0),
       Ret("establish", IF res = "Ok" THEN conn_id ELSE NoConn, res) >>

\* SimpleConnection::batch_execute
batch_execute_enter(en, self_id, uid, query) ==
    << Call("batch_execute", query), query__start(en, uid, self_id, query) >>

\* Mutant: `self.inner.batch_execute(query)?` returns before the done probe.
batch_execute_exit_early_return(en, self_id, uid, query, result) ==
    IF result = "Ok"
    THEN << Inner("batch_execute", query, result),
            query__done(en, uid, self_id),
            Ret("batch_execute", NoConn, result) >>
    ELSE << Inner("batch_execute", query, result),
            Ret("batch_execute", NoConn, result) >>

batch_execute_exit(en, self_id, uid, query, result) ==
    << Inner("batch_execute", query, result),
       query__done(en, uid, self_id),
       Ret("batch_execute", NoConn, result) >>

\* LoadConnection::load
load_enter(en, self_id, uid, source) ==
    << Call("load", source), query__start(en, uid, self_id, debug_query(source)) >>

\* Mutant: the wrapped load is handed the rendered text the probe carries.
load_exit_rendered_argument(en, self_id, uid, source, result) ==
    << Inner("load", debug_query(source), result),
       query__done(en, uid, self_id),
       Ret("load", NoConn, result) >>

\* Mutant: the done probe waits for the cursor to be exhausted.
load_exit_done_deferred(en, self_id, uid, source, result) ==
    IF result = "Ok(cursor)"
    THEN << Inner("load", source, result), Ret("load", NoConn, result) >>
    ELSE << Inner("load", source, result),
            query__done(en, uid, self_id),
            Ret("load", NoConn, result) >>

load_exit(en, self_id, uid, source, result) ==
    << Inner("load", source, result),
       query__done(en, uid, self_id),
       Ret("load", NoConn, result) >>

\* Connection::execute_returning_count
execute_returning_count_enter(en, self_id, uid, source) ==
    << Call("execute_returning_count", source),
       query__start(en, uid, self_id, debug_query(source)) >>

\* Mutant: a failed delegated call is reported as no rows affected.
execute_returning_count_exit_swallow(en, self_id, uid, source, result) ==
    << Inner("execute_returning_count", source, result),
       query__done(en, uid, self_id),
       Ret("execute_returning_count", NoConn,
           IF result = "Err" THEN "Ok(0)" ELSE result) >>

execute_returning_count_exit(en, self_id, uid, source, result) ==
    << Inner("execute_returning_count", source, result),
       query__done(en, uid, self_id),
       Ret("execute_returning_count", NoConn, result) >>

\* Mutant: ping bracketed by the query probes like the other methods.
ping_body_traced(result) ==
    << Call("ping", NoText),
       Site("query__start", TRUE, 1, NoConn, "ping", 0, 0),
       Inner("ping", NoText, result),
       Site("query__done", TRUE, 1, NoConn, NoText, 0, 0),
       Ret("ping", NoConn, result) >>

\* R2D2Connection::ping
ping_body(result) ==
    << Call("ping", NoText), Inner("ping", NoText, result), Ret("ping", NoConn, result) >>

\* Mutant: the depth is read after the delegated begin instead of before it.
begin_transaction_body_depth_after(en, c, out) ==
    LET d == depth([c EXCEPT !.tm = out.tm]) IN
    << Call("begin_transaction", NoText),
       InnerTx("begin_transaction", out),
       DepthRead(d),
       transaction__start(en, c.id, d),
       Ret("begin_transaction", NoConn, out.res) >>

\* Mutant: the start probe numbers the transaction being opened from 1.
begin_transaction_body_one_based(en, c, out) ==
    LET d == depth(c) IN
    << Call("begin_transaction", NoText),
       DepthRead(d),
       transaction__start(en, c.id, IF d >= 0 THEN d + 1 ELSE d),
       InnerTx("begin_transaction", out),
       Ret("begin_transaction", NoConn, out.res) >>

\* TransactionManager::begin_transaction; out is what the delegated
\* AnsiTransactionManager::begin_transaction does.
begin_transaction_body(en, c, out) ==
    LET d == depth(c) IN
    << Call("begin_transaction", NoText),
       DepthRead(d),
       transaction__start(en, c.id, d),
       InnerTx("begin_transaction", out),
       Ret("begin_transaction", NoConn, out.res) >>

\* Mutant: the wrapper keeps its own count, one less after every rollback.
rollback_transaction_body_own_counter(en, c, out) ==
    LET d == IF depth(c) > 0 THEN depth(c) - 1 ELSE depth(c) IN
    << Call("rollback_transaction", NoText),
       InnerTx("rollback_transaction", out),
       DepthRead(d),
       transaction__done(en, c.id, d, 0),
       Ret("rollback_transaction", NoConn, out.res) >>

\* Mutant: `result?` before the probe, a failed rollback reports nothing.
rollback_transaction_body_silent_on_err(en, c, out) ==
    LET d == depth([c EXCEPT !.tm = out.tm]) IN
    IF out.res = "Ok"
    THEN << Call("rollback_transaction", NoText),
            InnerTx("rollback_transaction", out),
            DepthRead(d),
            transaction__done(en, c.id, d, 0),
            Ret("rollback_transaction", NoConn, out.res) >>
    ELSE << Call("rollback_transaction", NoText),
            InnerTx("rollback_transaction", out),
            DepthRead(d),
            Ret("rollback_transaction", NoConn, out.res) >>

\* TransactionManager::rollback_transaction
rollback_transaction_body(en, c, out) ==
    LET d == depth([c EXCEPT !.tm = out.tm]) IN
    << Call("rollback_transaction", NoText),
       InnerTx("rollback_transaction", out),
       DepthRead(d),
       transaction__done(en, c.id, d, 0),
       Ret("rollback_transaction", NoConn, out.res) >>

\* Mutant: the depth is read before the delegated commit instead of after it.
commit_transaction_body_depth_before(en, c, out) ==
    LET d == depth(c) IN
    << Call("commit_transaction", NoText),
       DepthRead(d),
       InnerTx("commit_transaction", out),
       transaction__done(en, c.id, d, 1),
       Ret("commit_transaction", NoConn, out.res) >>

\* TransactionManager::commit_transaction
commit_transaction_body(en, c, out) ==
    LET d == depth([c EXCEPT !.tm = out.tm]) IN
    << Call("commit_transaction", NoText),
       InnerTx("commit_transaction", out),
       DepthRead(d),
       transaction__done(en, c.id, d, 1),
       Ret("commit_transaction", NoConn, out.res) >>

\* ------------------------------------------------------------------ state
Init ==
    /\ enabled \in BOOLEAN
    /\ uids = 0
    /\ uuids = 0
    /\ conn = [t \in Threads |-> NoConnection]
    /\ pc = [t \in Threads |-> "idle"]
    /\ cur = [t \in Threads |-> Idle]
    /\ trace = [t \in Threads |-> << >>]
    /\ nops = 0

Emit(t, events) == trace' = [trace EXCEPT ![t] = @ \o events]

\* ---------------------------------------------------------------- actions
\* establish: UniqueId::new(), Uuid::new_v4(), the start probe.
Establish(t, url, budget) ==
    /\ pc[t] = "idle" /\ ~conn[t].open /\ nops < budget
    /\ LET uid == UniqueId_new(uids)
           conn_id == Uuid_new_v4(uuids) IN
       /\ uids' = uid
       /\ uuids' = conn_id
       /\ cur' = [cur EXCEPT ![t] = Locals("establish", url, uid, conn_id)]
       /\ Emit(t, establish_enter(enabled, uid, conn_id, url))
    /\ pc' = [pc EXCEPT ![t] = "establish"]
    /\ nops' = nops + 1
    /\ UNCHANGED <<enabled, conn>>

\* establish: C::establish returns res, the done probe, `conn?`.
EstablishReturn(t, res) ==
    /\ pc[t] = "establish"
    /\ Emit(t, establish_exit(enabled, cur[t].id, cur[t].conn_id, cur[t].arg, res))
    /\ conn' = [conn EXCEPT ![t] =
                  IF res = "Ok" THEN DTraceConnection(Valid(0), cur[t].conn_id) ELSE @]
    /\ pc' = [pc EXCEPT ![t] = "idle"]
    /\ cur' = [cur EXCEPT ![t] = Idle]
    /\ UNCHANGED <<enabled, uids, uuids, nops>>

\* A query method up to its start probe: events is what it does.
QueryEnter(t, op, query, events, budget) ==
    /\ pc[t] = "idle" /\ conn[t].open /\ nops < budget
    /\ uids' = UniqueId_new(uids)
    /\ cur' = [cur EXCEPT ![t] = Locals(op, query, UniqueId_new(uids), NoConn)]
    /\ Emit(t, events)
    /\ pc' = [pc EXCEPT ![t] = op]
    /\ nops' = nops + 1
    /\ UNCHANGED <<enabled, uuids, conn>>

\* A query method from its delegated call on.
QueryExit(t, op, events) ==
    /\ pc[t] = op
    /\ Emit(t, events)
    /\ pc' = [pc EXCEPT ![t] = "idle"]
    /\ cur' = [cur EXCEPT ![t] = Idle]
    /\ UNCHANGED <<enabled, uids, uuids, conn, nops>>

BatchExecute(t, query, budget) ==
    QueryEnter(t, "batch_execute", query,
               batch_execute_enter(enabled, id(conn[t]), UniqueId_new(uids), query),
               budget)
BatchExecuteReturn(t, result) ==
    QueryExit(t, "batch_execute",
              batch_execute_exit(enabled, id(conn[t]), cur[t].id, cur[t].arg, result))

Load(t, source, budget) ==
    QueryEnter(t, "load", source,
               load_enter(enabled, id(conn[t]), UniqueId_new(uids), source), budget)
\* load returns what the wrapped load returned: a cursor that borrows the
\* connection, or the failure.
LoadReturn(t, result) ==
    /\ pc[t] = "load"
    /\ Emit(t, load_exit(enabled, id(conn[t]), cur[t].id, cur[t].arg, result))
    /\ pc' = [pc EXCEPT ![t] = IF result = "Ok(cursor)" THEN "cursor" ELSE "idle"]
    /\ cur' = [cur EXCEPT ![t] = Idle]
    /\ UNCHANGED <<enabled, uids, uuids, conn, nops>>

\* The caller takes the next row of the cursor: the cursor is the wrapped
\* connection's own, no code of the wrapper runs.
CursorNext(t, row, budget) ==
    /\ pc[t] = "cursor" /\ nops < budget
    /\ Emit(t, << CursorEv("next", row) >>)
    /\ nops' = nops + 1
    /\ UNCHANGED <<enabled, uids, uuids, conn, pc, cur>>

\* The caller drops the cursor, which gives the connection back.
CursorDrop(t) ==
    /\ pc[t] = "cursor"
    /\ Emit(t, << CursorEv("drop", NoRes) >>)
    /\ pc' = [pc EXCEPT ![t] = "idle"]
    /\ UNCHANGED <<enabled, uids, uuids, conn, cur, nops>>

ExecuteReturningCount(t, source, budget) ==
    QueryEnter(t, "execute_returning_count", source,
               execute_returning_count_enter(enabled, id(conn[t]),
                                             UniqueId_new(uids), source),
               budget)
ExecuteReturningCountReturn(t, result) ==
    QueryExit(t, "execute_returning_count",
              execute_returning_count_exit(enabled, id(conn[t]), cur[t].id,
                                           cur[t].arg, result))

Ping(t, result, budget) ==
    /\ pc[t] = "idle" /\ conn[t].open /\ nops < budget
    /\ Emit(t, ping_body(result))
    /\ nops' = nops + 1
    /\ UNCHANGED <<enabled, uids, uuids, conn, pc, cur>>

\* conn.id()
GetId(t, budget) ==
    /\ pc[t] = "idle" /\ conn[t].open /\ nops < budget
    /\ Emit(t, << Call("id", NoText), Ret("id", id(conn[t]), "Ok") >>)
    /\ nops' = nops + 1
    /\ UNCHANGED <<enabled, uids, uuids, conn, pc, cur>>

\* A transaction method: events is what it does, tm the status of the wrapped
\* manager when it returns.
TxOp(t, tm, events, budget) ==
    /\ pc[t] = "idle" /\ conn[t].open /\ nops < budget
    /\ Emit(t, events)
    /\ conn' = [conn EXCEPT ![t].tm = tm]
    /\ nops' = nops + 1
    /\ UNCHANGED <<enabled, uids, uuids, pc, cur>>

BeginTransaction(t, budget) ==
    \E out \in inner_begin_transaction(depth_status(conn[t])) :
        TxOp(t, out.tm, begin_transaction_body(enabled, conn[t], out), budget)

RollbackTransaction(t, budget) ==
    \E out \in inner_rollback_transaction(conn[t].tm) :
        TxOp(t, depth_status([conn[t] EXCEPT !.tm = out.tm]),
             rollback_transaction_body(enabled, conn[t], out), budget)

CommitTransaction(t, budget) ==
    \E out \in inner_commit_transaction(conn[t].tm) :
        TxOp(t, depth_status([conn[t] EXCEPT !.tm = out.tm]),
             commit_transaction_body(enabled, conn[t], out), budget)

\* TransactionManager::transaction_manager_status_mut hands out the wrapped
\* manager's status; the holder marks it broken (set_in_error).
SetInError(t, budget) ==
    /\ pc[t] = "idle" /\ conn[t].open /\ conn[t].tm.valid /\ nops < budget
    /\ conn' = [conn EXCEPT ![t].tm = InError]
    /\ Emit(t, << Call("transaction_manager_status_mut", NoText),
                  Ret("transaction_manager_status_mut", NoConn, "Ok") >>)
    /\ nops' = nops + 1
    /\ UNCHANGED <<enabled, uids, uuids, pc, cur>>

\* A DTrace consumer enables or disables the provider's probes.
Toggle(budget) ==
    /\ nops < budget
    /\ enabled' = ~enabled
    /\ nops' = nops + 1
    /\ UNCHANGED <<uids, uuids, conn, pc, cur, trace>>

Next ==
    \/ \E t \in Threads, url \in Urls : Establish(t, url, MaxOps)
    \/ \E t \in Threads, res \in EstablishResults : EstablishReturn(t, res)
    \/ \E t \in Threads, q \in Queries : BatchExecute(t, q, MaxOps)
    \/ \E t \in Threads, res \in UnitResults : BatchExecuteReturn(t, res)
    \/ \E t \in Threads, q \in Queries : Load(t, q, MaxOps)
    \/ \E t \in Threads, res \in CursorResults : LoadReturn(t, res)
    \/ \E t \in Threads, row \in CursorRows : CursorNext(t, row, MaxOps)
    \/ \E t \in Threads : CursorDrop(t)
    \/ \E t \in Threads, q \in Queries : ExecuteReturningCount(t, q, MaxOps)
    \/ \E t \in Threads, res \in CountResults : ExecuteReturningCountReturn(t, res)
    \/ \E t \in Threads, res \in UnitResults : Ping(t, res, MaxOps)
    \/ \E t \in Threads : GetId(t, MaxOps)
    \/ \E t \in Threads : BeginTransaction(t, MaxOps)
    \/ \E t \in Threads : RollbackTransaction(t, MaxOps)
    \/ \E t \in Threads : CommitTransaction(t, MaxOps)
    \/ \E t \in Threads : SetInError(t, MaxOps)
    \/ Toggle(MaxOps)

Spec == Init /\ [][Next]_vars

\* The transaction workload: one thread establishes a connection and opens
\* and closes (nested) transactions on it.
NextTx ==
    \/ \E url \in Urls : Establish(TxThread, url, MaxTxOps)
    \/ \E res \in EstablishResults : EstablishReturn(TxThread, res)
    \/ BeginTransaction(TxThread, MaxTxOps)
    \/ RollbackTransaction(TxThread, MaxTxOps)
    \/ CommitTransaction(TxThread, MaxTxOps)

SpecTx == Init /\ [][NextTx]_vars

\* ------------------------------------------------------- reading a trace
QueryOps == {"batch_execute", "load", "execute_returning_count"}
TxOps == {"begin_transaction", "commit_transaction", "rollback_transaction"}
CloseOps == {"commit_transaction", "rollback_transaction"}
DelegatingOps == QueryOps \cup TxOps \cup {"establish", "ping"}
ProbeKinds == {"connection__establish__start", "connection__establish__done",
               "query__start", "query__done",
               "transaction__start", "transaction__done"}

\* The index of the return that ends the call entered at index i of tr, or 0
\* while the call is outstanding.
SegEnd(tr, i) ==
    LET R == {j \in (i + 1)..Len(tr) : tr[j].k = "ret"} IN
    IF R = {} THEN 0 ELSE CHOOSE j \in R : \A m \in R : j <= m

\* The indices at which tr enters a call of one of ops.
CallsOf(tr, ops) == {i \in DOMAIN tr : tr[i].k = "call" /\ tr[i].op \in ops}
\* Those whose call has returned.
DoneCallsOf(tr, ops) == {i \in CallsOf(tr, ops) : SegEnd(tr, i) # 0}

\* What a step appended to the trace of t.
Appended(t) == SubSeq(trace'[t], Len(trace[t]) + 1, Len(trace'[t]))

IsProbe(e) == e.k \in ProbeKinds
IsRetOf(e) == e.k = "ret" /\ e.op \in DelegatingOps
IsInner(e) == e.k = "inner"
ResultsOf(evs) == [i \in DOMAIN evs |-> <<evs[i].op, evs[i].res>>]

\* Every probe site a step executes emits exactly when the probes are enabled.
SitesFollowEnabled ==
    \A t \in Threads : \A i \in DOMAIN Appended(t) :
        IsProbe(Appended(t)[i]) => Appended(t)[i].fired = enabled

\* ------------------------------------------------------------------ C1
\* State part of C1 (stated below).
C1_Bracket ==
    \A t \in Threads : LET tr == trace[t] IN
    \A i \in CallsOf(tr, QueryOps) :
        LET e == SegEnd(tr, i) IN
        /\ Len(tr) >= i + 1
        /\ tr[i + 1].k = "query__start"
        /\ tr[i + 1].fired => tr[i + 1].uid # NoUid /\ tr[i + 1].conn = conn[t].id
        /\ e = 0 => Len(tr) = i + 1
        /\ e # 0 =>
            /\ e = i + 4
            /\ tr[i + 2].k = "inner" /\ tr[i + 2].op = tr[i].op
            /\ tr[i + 3].k = "query__done"
            /\ tr[i + 3].fired => tr[i + 3].uid # NoUid /\ tr[i + 3].conn = conn[t].id
            /\ (tr[i + 1].fired /\ tr[i + 3].fired) =>
                  /\ tr[i + 1].uid = tr[i + 3].uid
                  /\ tr[i + 1].conn = tr[i + 3].conn

\* C1: every batch_execute, load and execute_returning_count call executes
\* the query-start probe site exactly once, before the delegated call, and the
\* query-done probe site exactly once, after the delegated call has returned
\* (Ok or Err) and before the wrapper returns; each site emits its probe when
\* the probes are enabled, and the probes emitted for one call carry the same
\* correlation id and the id of the connection.
C1_QueryProbesPaired == []C1_Bracket /\ [][SitesFollowEnabled]_vars

\* A query call whose delegated call failed has returned, both probes emitted.
C1_Witness ==
    \E t \in Threads : \E i \in DoneCallsOf(trace[t], QueryOps) :
        /\ trace[t][i + 1].fired /\ trace[t][i + 3].fired
        /\ trace[t][i + 2].res = "Err"

\* ------------------------------------------------------------------ C2
\* C2: the results the wrapper returns, in order, are the results the wrapped
\* connection returned to the delegated calls, in order, for every sequence of
\* establish, query, transaction and ping calls, with the probes enabled or
\* disabled.
C2_ResultsTransparent ==
    \A t \in Threads :
        ResultsOf(SelectSeq(trace[t], IsRetOf)) = ResultsOf(SelectSeq(trace[t], IsInner))

\* A thread got an Ok while the probes emitted and an Err while they did not.
C2_Witness ==
    \E t \in Threads : LET tr == trace[t] IN
        /\ \E i \in DoneCallsOf(tr, DelegatingOps) :
              tr[SegEnd(tr, i)].res = "Ok" /\ tr[i + 1].fired
        /\ \E i \in DoneCallsOf(tr, QueryOps) :
              tr[SegEnd(tr, i)].res = "Err" /\ ~tr[i + 1].fired

\* --------------------------------------------- reading transaction probes
IsTxRet(e) == e.k = "ret" /\ e.op \in TxOps
IsStartProbe(e) == e.k = "transaction__start" /\ e.fired
IsDoneProbe(e) == e.k = "transaction__done" /\ e.fired
DepthsOf(evs) == [i \in DOMAIN evs |-> evs[i].depth]
StartDepths(tr) == DepthsOf(SelectSeq(tr, IsStartProbe))
DoneDepths(tr) == DepthsOf(SelectSeq(tr, IsDoneProbe))

\* tr holds n begin_transaction calls followed by n commit_transaction calls,
\* all Ok, and no other transaction call.
NestedBeginsThenCommits(tr, n) ==
    LET r == SelectSeq(tr, IsTxRet) IN
    /\ Len(r) = 2 * n
    /\ \A i \in 1..n : r[i].op = "begin_transaction" /\ r[i].res = "Ok"
    /\ \A i \in (n + 1)..(2 * n) : r[i].op = "commit_transaction" /\ r[i].res = "Ok"

\* The number of open transactions the manager status st stands for, -1 when
\* the status is InError.
OpenCount(st) == IF st.valid THEN st.depth ELSE -1

\* ------------------------------------------------------------------ C3
\* C3 as stated: after N nested begins and N commits, all Ok, on a fresh
\* connection the transaction-start probes carried depths 1, 2, ..., N and the
\* transaction-done probes carried N, N-1, ..., 1.
C3_AsStated ==
    \A n \in 1..MaxTxOps :
        (enabled /\ NestedBeginsThenCommits(trace[TxThread], n)) =>
            /\ StartDepths(trace[TxThread]) = [i \in 1..n |-> i]
            /\ DoneDepths(trace[TxThread]) = [i \in 1..n |-> n + 1 - i]

\* C3 amended: after N nested begins and N commits, all Ok, on a fresh
\* connection the transaction-start probes carried depths 0, 1, ..., N-1 (the
\* depth before each begin) and the transaction-done probes carried
\* N-1, N-2, ..., 0 (the depth after each commit).
C3_NestedDepths ==
    \A n \in 1..MaxTxOps :
        (enabled /\ NestedBeginsThenCommits(trace[TxThread], n)) =>
            /\ StartDepths(trace[TxThread]) = [i \in 1..n |-> i - 1]
            /\ DoneDepths(trace[TxThread]) = [i \in 1..n |-> n - i]

\* Three nested transactions were opened and committed with the probes enabled.
C3_Witness == enabled /\ NestedBeginsThenCommits(trace[TxThread], 3)

\* ------------------------------------------------------------------ C4
\* Index of the call whose return is the last event of tr, or 0.
LastCall(tr) ==
    LET S == {i \in DOMAIN tr : tr[i].k = "call" /\ SegEnd(tr, i) = Len(tr)} IN
    IF S = {} THEN 0 ELSE CHOOSE i \in S : TRUE

\* The emitted transaction-done probes of Ok commits and rollbacks at indices
\* i < j of tr with no begin_transaction call between them.
CloseOk(tr, i) ==
    /\ tr[i].k = "call" /\ tr[i].op \in CloseOps /\ SegEnd(tr, i) = i + 4
    /\ tr[i + 4].res = "Ok" /\ tr[i + 3].fired
NoBeginBetween(tr, i, j) ==
    \A m \in i..j : ~(tr[m].k = "call" /\ tr[m].op = "begin_transaction")

\* C4: a transaction-done probe carries the depth read after the delegated
\* commit or rollback has run: the status that call left.  begin, begin,
\* commit, commit (all Ok) on a fresh connection gives done depths 1 then 0,
\* each committed=1; and the done depths of successive Ok commits and
\* rollbacks with no begin in between strictly decrease.
C4_DoneDepthAfter ==
    \A t \in Threads : LET tr == trace[t] IN
    /\ \A i \in DoneCallsOf(tr, CloseOps) :
          /\ SegEnd(tr, i) = i + 4
          /\ tr[i + 1].k = "inner" /\ tr[i + 2].k = "depth"
          /\ tr[i + 3].k = "transaction__done"
          /\ tr[i + 3].fired => tr[i + 3].depth = tr[i + 2].depth
    /\ LET i == LastCall(tr) IN
          (i # 0 /\ tr[i].op \in CloseOps /\ pc[t] = "idle") =>
              /\ tr[i + 2].depth = OpenCount(conn[t].tm)
              /\ tr[i + 3].fired => tr[i + 3].depth = OpenCount(conn[t].tm)
    /\ (enabled /\ NestedBeginsThenCommits(tr, 2)) =>
          /\ DoneDepths(tr) = <<1, 0>>
          /\ \A e \in {tr[m] : m \in DOMAIN tr} : IsDoneProbe(e) => e.flag = 1
    /\ \A i, j \in DoneCallsOf(tr, CloseOps) :
          (i < j /\ CloseOk(tr, i) /\ CloseOk(tr, j) /\ NoBeginBetween(tr, i, j)) =>
              tr[j + 3].depth < tr[i + 3].depth

\* begin, begin, commit, commit, all Ok, ran with the probes enabled.
C4_Witness ==
    /\ enabled /\ NestedBeginsThenCommits(trace[TxThread], 2)
    /\ CloseOk(trace[TxThread], LastCall(trace[TxThread]))

\* ------------------------------------------------------------------ C5
\* Step part of C5 (stated below).
C5_Step ==
    \A t \in Threads : LET a == Appended(t) IN
        (a # << >> /\ a[1] = Call("begin_transaction", NoText)) =>
            /\ Len(a) = 5
            /\ a[2].k = "depth" /\ a[3].k = "transaction__start" /\ a[4].k = "inner"
            /\ (a[3].fired /\ conn[t].tm.valid) =>
                  /\ a[3].depth = conn[t].tm.depth
                  /\ conn[t].tm.depth = 0 => a[3].depth = 0

\* C5: the transaction-start probe of a begin_transaction issued while k
\* transactions are open carries depth k, read before the begin is delegated;
\* it carries 0 when no transaction is open.
C5_StartDepthBefore == [][C5_Step]_vars

\* Emitted start probes of a top-level begin and of a nested begin.
C5_Witness ==
    \E t \in Threads :
        /\ \E m \in DOMAIN trace[t] : IsStartProbe(trace[t][m]) /\ trace[t][m].depth = 0
        /\ \E m \in DOMAIN trace[t] : IsStartProbe(trace[t][m]) /\ trace[t][m].depth = 2

\* ------------------------------------------------------------------ C6
\* Step part of C6 (stated below).
C6_Step ==
    \A t \in Threads : LET a == Appended(t) IN
        (a # << >> /\ a[1].k = "call" /\ a[1].op \in TxOps) =>
            LET inner == SelectSeq(a, IsInner)
                reads == SelectSeq(a, LAMBDA e : e.k = "depth")
                probes == SelectSeq(a, IsProbe) IN
            /\ Len(inner) = 1 /\ Len(reads) = 1 /\ Len(probes) = 1
            /\ inner[1].op = a[1].op
            /\ a[Len(a)].k = "ret" /\ a[Len(a)].res = inner[1].res
            /\ ~conn[t].tm.valid =>
                  /\ reads[1].depth = -1
                  /\ probes[1].fired => probes[1].depth = -1
            /\ reads[1].depth = -1 => (probes[1].fired => probes[1].depth = -1)

\* C6: a begin, commit or rollback issued while the manager status is InError
\* reads depth -1 and its probe carries -1; the delegated call is still made,
\* once, and the wrapper returns exactly what it returned.  The same holds
\* whenever the depth read gives -1.
C6_SentinelHarmless == [][C6_Step]_vars

\* A begin and a commit were issued on a broken manager with the probes on.
C6_Witness ==
    \E t \in Threads : LET tr == trace[t] IN
        /\ \E m \in DOMAIN tr : IsStartProbe(tr[m]) /\ tr[m].depth = -1
        /\ \E m \in DOMAIN tr : IsDoneProbe(tr[m]) /\ tr[m].depth = -1

\* ------------------------------------------------------------------ C7
\* State part of C7 (stated below).
C7_Bracket ==
    \A t \in Threads : LET tr == trace[t] IN
    /\ \A i \in CallsOf(tr, {"establish"}) :
        LET e == SegEnd(tr, i) IN
        /\ Len(tr) >= i + 1
        /\ tr[i + 1].k = "connection__establish__start"
        /\ tr[i + 1].fired =>
              /\ tr[i + 1].text = tr[i].text
              /\ tr[i + 1].uid # NoUid /\ tr[i + 1].conn # NoConn
        /\ e = 0 => Len(tr) = i + 1
        /\ e # 0 =>
            /\ e = i + 4
            /\ tr[i + 2].k = "inner" /\ tr[i + 2].op = "establish"
            /\ tr[i + 2].text = tr[i].text
            /\ tr[i + 3].k = "connection__establish__done"
            /\ tr[i + 3].fired => (tr[i + 3].flag = 1 <=> tr[i + 2].res = "Ok")
            /\ tr[i + 3].fired => tr[i + 3].flag \in {0, 1}
            /\ (tr[i + 1].fired /\ tr[i + 3].fired) =>
                  /\ tr[i + 1].uid = tr[i + 3].uid
                  /\ tr[i + 1].conn = tr[i + 3].conn
            /\ tr[e].res = tr[i + 2].res
            /\ tr[e].res = "Err" => tr[e].conn = NoConn
            /\ tr[e].res = "Ok" =>
                  /\ conn[t].open /\ conn[t].id = tr[e].conn
                  /\ tr[i + 1].fired => tr[i + 1].conn = tr[e].conn
                  /\ tr[i + 3].fired => tr[i + 3].conn = tr[e].conn
    /\ conn[t].open <=>
          \E i \in DoneCallsOf(tr, {"establish"}) : tr[SegEnd(tr, i)].res = "Ok"

\* C7: every establish executes the establish-start probe site once (target
\* string as payload) before C::establish and the establish-done site once
\* after it, whatever it returned; each emits when the probes are enabled, the
\* two carry the same correlation id and connection id, and the success flag
\* is 1 exactly when C::establish returned Ok.  On Err the error is returned
\* and no DTraceConnection exists; on Ok the connection's id is the
\* connection id of the two probes.
C7_EstablishProbesPaired == []C7_Bracket /\ [][SitesFollowEnabled]_vars

\* With the probes emitted, one establish failed and one succeeded.
C7_Witness ==
    /\ \E t \in Threads : \E i \in DoneCallsOf(trace[t], {"establish"}) :
          /\ trace[t][i + 1].fired /\ trace[t][i + 3].fired
          /\ trace[t][i + 4].res = "Err"
    /\ \E t \in Threads : \E i \in DoneCallsOf(trace[t], {"establish"}) :
          /\ trace[t][i + 1].fired /\ trace[t][i + 3].fired
          /\ trace[t][i + 4].res = "Ok"

\* ------------------------------------------------------------------ C8
\* C8: an emitted transaction-done probe carries committed=1 exactly when the
\* transaction was committed (the delegated commit returned Ok) and
\* committed=0 exactly when it was rolled back (the delegated rollback
\* returned Ok), failing calls included.
C8_CommittedFlagTruthful ==
    \A t \in Threads : LET tr == trace[t] IN
    \A i \in DoneCallsOf(tr, CloseOps) :
        tr[i + 3].fired =>
            /\ tr[i + 3].flag = 1 =>
                  tr[i + 1].op = "commit_transaction" /\ tr[i + 1].res = "Ok"
            /\ tr[i + 3].flag = 0 =>
                  tr[i + 1].op = "rollback_transaction" /\ tr[i + 1].res = "Ok"

\* ------------------------------------------------------------------ C9
\* Index of the return of the establish that produced the connection of t.
EstablishedAt(tr) ==
    CHOOSE j \in DOMAIN tr : tr[j].k = "ret" /\ tr[j].op = "establish" /\ tr[j].res = "Ok"

\* State part of C9 (stated below).
C9_Inv ==
    /\ \A t \in Threads : conn[t].open =>
          LET tr == trace[t]
              r == EstablishedAt(tr) IN
          /\ conn[t].id = tr[r].conn /\ conn[t].id # NoConn
          /\ \A j \in (r + 1)..Len(tr) :
                /\ (tr[j].k = "ret" /\ tr[j].op = "id") => tr[j].conn = tr[r].conn
                /\ (IsProbe(tr[j]) /\ tr[j].fired) => tr[j].conn = tr[r].conn
    /\ \A t1, t2 \in Threads :
          (t1 # t2 /\ conn[t1].open /\ conn[t2].open) => conn[t1].id # conn[t2].id

C9_IdStep ==
    \A t \in Threads : conn[t].open => (conn'[t].open /\ conn'[t].id = conn[t].id)

\* C9: the id of a DTraceConnection is the value establish generated: id()
\* returns it after any sequence of operations, every probe emitted for an
\* operation on the connection carries it, and two DTraceConnections (of two
\* threads, established concurrently or not) have different ids.
C9_ConnIdStable == []C9_Inv /\ [][C9_IdStep]_vars

\* Two connections exist; one ran a traced operation and then returned its id.
C9_Witness ==
    /\ \A t \in Threads : conn[t].open
    /\ \E t \in Threads : LET tr == trace[t] IN
          \E j \in DOMAIN tr : \E m \in DOMAIN tr :
              /\ EstablishedAt(tr) < m /\ m < j
              /\ IsProbe(tr[m]) /\ tr[m].fired
              /\ tr[j].k = "ret" /\ tr[j].op = "id"

\* ------------------------------------------------------------------ C10
ProbesEmitted(tr) == SelectSeq(tr, LAMBDA e : IsProbe(e) /\ e.fired)

\* Step part of C10 (stated below).
C10_Step ==
    \A t \in Threads : LET a == Appended(t) IN
        (a # << >> /\ a[1] = Call("ping", NoText)) =>
            /\ \A i \in DOMAIN a : ~IsProbe(a[i])
            /\ \A u \in Threads : ProbesEmitted(trace'[u]) = ProbesEmitted(trace[u])
            /\ uids' = uids /\ uuids' = uuids
            /\ Len(a) = 3
            /\ a[2].k = "inner" /\ a[2].op = "ping"
            /\ a[3].k = "ret" /\ a[3].op = "ping" /\ a[3].res = a[2].res

\* C10: a ping executes no probe site and takes no UniqueId: the probes
\* emitted so far are unchanged by it, and it returns exactly what the
\* wrapped connection's ping returned.
C10_PingUntraced == [][C10_Step]_vars

\* With the probes enabled, a ping failed after a traced query and a ping
\* succeeded.
C10_Witness ==
    \E t \in Threads : LET tr == trace[t] IN
        /\ \E j \in DOMAIN tr : tr[j].k = "ret" /\ tr[j].op = "ping" /\ tr[j].res = "Err"
        /\ \E j \in DOMAIN tr : tr[j].k = "ret" /\ tr[j].op = "ping" /\ tr[j].res = "Ok"
        /\ ProbesEmitted(tr) # << >>
        /\ enabled

\* ------------------------------------------------------------------ C11
\* What the delegated call of transaction method op may do on status tm.
InnerOutcomes(op, tm) ==
    IF op = "begin_transaction" THEN inner_begin_transaction(tm)
    ELSE IF op = "commit_transaction" THEN inner_commit_transaction(tm)
    ELSE inner_rollback_transaction(tm)

\* The status an "inner" event of a transaction method recorded.
StatusLeft(e) == [valid |-> e.flag = 1, depth |-> e.depth]

IsDepthRead(e) == e.k = "depth"

\* Step part of C11 (stated below).
C11_Step ==
    \A t \in Threads : LET a == Appended(t) IN
        (a # << >> /\ a[1].k = "call" /\ a[1].op \in TxOps) =>
            LET inner == SelectSeq(a, IsInner) IN
            /\ Len(inner) = 1
            /\ Len(SelectSeq(a, IsDepthRead)) = 1
            /\ Len(SelectSeq(a, IsProbe)) = 1
            /\ Out(inner[1].res, StatusLeft(inner[1])) \in InnerOutcomes(a[1].op, conn[t].tm)
            /\ conn'[t].tm = StatusLeft(inner[1])
            /\ \A u \in Threads \ {t} : conn'[u] = conn[u]

\* C11: the depth computation is a pure read.  In a begin the delegated call
\* finds the status exactly as it was before the depth was read; in a commit
\* or rollback the status after the method is exactly the one the delegated
\* call left; reading the depth opens, closes and fails no transaction and
\* adds no probe to the one the method fires.  This holds with no transaction
\* open, with N open and with the status InError.
C11_DepthPureRead == [][C11_Step]_vars

\* The depth was read with no transaction open, with two open and with the
\* status InError.
C11_Witness ==
    \E t \in Threads : LET tr == trace[t] IN
        /\ \E m \in DOMAIN tr : IsDepthRead(tr[m]) /\ tr[m].depth = 0
        /\ \E m \in DOMAIN tr : IsDepthRead(tr[m]) /\ tr[m].depth = 2
        /\ \E m \in DOMAIN tr : IsDepthRead(tr[m]) /\ tr[m].depth = -1

\* ------------------------------------------------------------------ C12
\* Step part of C12 (stated below).
C12_Step ==
    \A t \in Threads : LET a == Appended(t) IN
        (a # << >> /\ a[1].k = "call" /\ a[1].op \in TxOps) =>
            LET probes == SelectSeq(a, IsProbe)
                observed == IF a[1].op = "begin_transaction"
                            THEN conn[t].tm ELSE conn'[t].tm IN
            /\ Len(probes) = 1
            /\ probes[1].fired =>
                  /\ probes[1].depth = OpenCount(observed)
                  /\ probes[1].depth = -1 <=> ~observed.valid
                  /\ observed.valid => probes[1].depth = observed.depth

\* C12: the depth an emitted transaction-start or transaction-done probe
\* carries is the wrapped manager's own count of open transactions at the
\* moment of observation (just before the delegated begin, just after the
\* delegated commit or rollback), and it is -1 exactly when the status is
\* InError then; after any sequence of begins, commits and rollbacks, Ok or
\* Err, and of changes made to the status behind the wrapper's back.
C12_DepthIsGroundTruth == [][C12_Step]_vars

\* Probes were emitted with one transaction open and with the status InError.
C12_Witness ==
    \E t \in Threads : LET tr == trace[t] IN
        /\ \E m \in DOMAIN tr : IsStartProbe(tr[m]) /\ tr[m].depth = 1
        /\ \E m \in DOMAIN tr : IsDoneProbe(tr[m]) /\ tr[m].depth = -1

\* ------------------------------------------------------------------ C13
\* The places of tr where the status of the wrapped manager is set: the
\* delegated transaction calls and the changes made through
\* transaction_manager_status_mut; and the status each leaves.
StatusSetAt(tr) ==
    {j \in DOMAIN tr :
        \/ tr[j].k = "inner" /\ tr[j].op \in TxOps
        \/ tr[j].k = "call" /\ tr[j].op = "transaction_manager_status_mut"}
StatusAt(tr, j) == IF tr[j].k = "inner" THEN StatusLeft(tr[j]) ELSE InError

\* The begin_transaction calls of tr that opened a transaction; a begin
\* segment is call, depth read, start probe site, delegated call, return.
Begun(tr) ==
    {i \in CallsOf(tr, {"begin_transaction"}) :
        SegEnd(tr, i) = i + 4 /\ tr[i + 3].res = "Ok"}
\* The nesting level of the transaction begun at i.
Level(tr, i) == tr[i + 3].depth
\* Where the transaction begun at i stopped being open (0: still open).
EndOf(tr, i) ==
    LET E == {j \in StatusSetAt(tr) :
                /\ j > i + 3
                /\ (~StatusAt(tr, j).valid \/ StatusAt(tr, j).depth < Level(tr, i))} IN
    IF E = {} THEN 0 ELSE CHOOSE j \in E : \A m \in E : j <= m
\* The transaction begun at i was closed by an Ok commit or rollback.
ClosedOk(tr, i) ==
    LET j == EndOf(tr, i) IN
    /\ j # 0 /\ tr[j].k = "inner" /\ tr[j].op \in CloseOps /\ tr[j].res = "Ok"

\* C13: transaction probes pair by (connection id, depth).  When a
\* transaction opened by an Ok begin is closed by an Ok commit or rollback,
\* the transaction-done probe of the closing call carries the connection id
\* and the depth of the transaction-start probe of that begin; and the
\* transactions open on a connection at any moment have start-probe depths
\* that increase strictly with nesting.
C13_PairByDepth ==
    \A t \in Threads : LET tr == trace[t] IN
    /\ \A i \in Begun(tr) :
          ClosedOk(tr, i) =>
              LET j == EndOf(tr, i) IN
              /\ tr[j + 2].k = "transaction__done" /\ tr[i + 2].k = "transaction__start"
              /\ (tr[i + 2].fired /\ tr[j + 2].fired) =>
                    /\ tr[j + 2].conn = tr[i + 2].conn
                    /\ tr[j + 2].depth = tr[i + 2].depth
    /\ \A i1, i2 \in Begun(tr) :
          (i1 < i2 /\ EndOf(tr, i1) = 0 /\ EndOf(tr, i2) = 0
              /\ tr[i1 + 2].fired /\ tr[i2 + 2].fired) =>
                 tr[i1 + 2].depth < tr[i2 + 2].depth

\* With the probes emitted: a nested transaction was rolled back, the outer
\* one committed, and two more are open, one inside the other.
C13_Witness ==
    LET tr == trace[TxThread] IN
    /\ \E i1, i2 \in Begun(tr) :
          /\ i1 < i2 /\ ClosedOk(tr, i1) /\ ClosedOk(tr, i2)
          /\ EndOf(tr, i2) < EndOf(tr, i1)
          /\ tr[EndOf(tr, i2)].op = "rollback_transaction"
          /\ tr[EndOf(tr, i1)].op = "commit_transaction"
          /\ tr[i1 + 2].fired /\ tr[EndOf(tr, i1) + 2].fired
    /\ \E i1, i2 \in Begun(tr) :
          i1 < i2 /\ EndOf(tr, i1) = 0 /\ EndOf(tr, i2) = 0 /\ tr[i1 + 2].fired

\* ------------------------------------------------------------------ C14
\* The entries, delegated calls and returns of the delegating methods.
IsDelegation(e) ==
    \/ e.k \in {"call", "ret"} /\ e.op \in DelegatingOps
    \/ e.k = "inner"

\* C14: the wrapper adds no effect on the database.  Every call of a
\* delegating method makes exactly one call of the same method on the
\* wrapped connection, with the argument it was given, between its entry
\* and its return; a method that does not delegate makes none; so the
\* wrapped connection sees the calls of the application, in their order,
\* and nothing else.
C14_OneDelegatedCall ==
    \A t \in Threads :
        LET s == SelectSeq(trace[t], IsDelegation) IN
        \A m \in DOMAIN s :
            /\ m % 3 = 1 => s[m].k = "call"
            /\ m % 3 = 2 =>
                  /\ s[m].k = "inner"
                  /\ s[m].op = s[m - 1].op /\ s[m].text = s[m - 1].text
            /\ m % 3 = 0 => s[m].k = "ret" /\ s[m].op = s[m - 1].op

\* A connection ran a load whose rendered text differs from its argument,
\* had a delegated call fail and then made another, with the probes emitted
\* for one call and not for another.
C14_Witness ==
    \E t \in Threads : LET tr == trace[t] IN
    /\ \E i \in DoneCallsOf(tr, {"load"}) :
          tr[i + 1].fired /\ tr[i + 1].text # tr[i].text
    /\ \E i, j \in DoneCallsOf(tr, DelegatingOps) :
          /\ i < j /\ tr[SegEnd(tr, i)].res = "Err"
    /\ \E i \in DOMAIN tr : IsProbe(tr[i]) /\ ~tr[i].fired

\* ------------------------------------------------------------------ C15
\* The operations in flight: entered (start probe site passed), delegated
\* call not yet returned.
Outstanding == {t \in Threads : pc[t] \in QueryOps \cup {"establish"}}
\* The start probe site of the operation t has in flight.
StartSite(t) == trace[t][Len(trace[t])]
IsOpDone(e) == e.k \in {"query__done", "connection__establish__done"}

\* State part of C15 (stated below).
C15_Inv ==
    \A t, u \in Outstanding :
        t # u =>
            /\ cur[t].id # cur[u].id
            /\ (StartSite(t).fired /\ StartSite(u).fired) =>
                  StartSite(t).uid # StartSite(u).uid

\* Step part of C15 (stated below).
C15_Step ==
    \A t \in Threads : LET done == SelectSeq(Appended(t), IsOpDone) IN
        (done # << >> /\ done[1].fired) =>
            /\ {u \in Outstanding : cur[u].id = done[1].uid} = {t}
            /\ \A u \in Outstanding :
                  (StartSite(u).fired /\ StartSite(u).uid = done[1].uid) => u = t
            /\ StartSite(t).fired => StartSite(t).uid = done[1].uid

\* C15: under any interleaving of the operations of several connections,
\* one thread each, no two operations outstanding at the same time carry
\* the same correlation id, so an emitted done probe carries the id of
\* exactly one outstanding operation, the one that is returning, and of no
\* other outstanding start probe.
C15_OutstandingIdsDistinct == []C15_Inv /\ [][C15_Step]_vars

\* Two operations are outstanding at once with their start probes emitted,
\* after a done probe was emitted for an earlier operation.
C15_Witness ==
    /\ Outstanding = Threads
    /\ \A t \in Threads : StartSite(t).fired
    /\ \E t \in Threads : \E i \in DOMAIN trace[t] :
          IsOpDone(trace[t][i]) /\ trace[t][i].fired

\* ------------------------------------------------------------------ C16
IsCursorEv(e) == e.k \in {"next", "drop"}

\* State part of C16 (stated below).
C16_Inv ==
    \A t \in Threads : LET tr == trace[t] IN
        \A j \in DOMAIN tr :
            IsCursorEv(tr[j]) =>
                \E i \in DoneCallsOf(tr, {"load"}) :
                    LET r == SegEnd(tr, i) IN
                    /\ r < j
                    /\ tr[r].res = "Ok(cursor)"
                    /\ tr[r - 1].k = "query__done"
                    /\ tr[r - 2] = Inner("load", tr[i].text, "Ok(cursor)")
                    /\ \A m \in (r + 1)..j : IsCursorEv(tr[m])

\* Step part of C16 (stated below).
C16_Step ==
    \A t \in Threads : LET a == Appended(t) IN
        /\ (a # << >> /\ a[1].k = "inner" /\ a[1].op = "load") =>
              /\ Len(a) = 3
              /\ a[2].k = "query__done" /\ a[2].fired = enabled
              /\ a[3] = Ret("load", NoConn, a[1].res)
        /\ (a # << >> /\ IsCursorEv(a[1])) =>
              /\ pc[t] = "cursor"
              /\ SelectSeq(a, IsProbe) = << >>
              /\ ProbesEmitted(trace'[t]) = ProbesEmitted(trace[t])

\* C16: load's query-done probe marks the return of the delegated load.
\* The step in which the delegated load returns the cursor or the failure
\* passes the query-done probe site and returns; every row the caller takes
\* from the cursor, and its drop, comes after that site, and taking rows or
\* dropping the cursor emits no probe.
C16_DoneAtDispatch == []C16_Inv /\ [][C16_Step]_vars

\* With the probes emitted, a load returned a cursor; the caller took a row
\* from it and dropped it; another load failed.
C16_Witness ==
    \E t \in Threads : LET tr == trace[t] IN
    /\ \E j \in DOMAIN tr :
          /\ j > 3
          /\ tr[j] = CursorEv("drop", NoRes)
          /\ tr[j - 1] = CursorEv("next", "Some(Ok(row))")
          /\ tr[j - 3].k = "query__done" /\ tr[j - 3].fired
    /\ \E i \in DoneCallsOf(tr, {"load"}) : tr[SegEnd(tr, i)].res = "Err"

\* ------------------------------------------------------------------ C17
\* The depth observations made between the call at index i of tr and its
\* return.
DepthReadsIn(tr, i) == {m \in i..SegEnd(tr, i) : IsDepthRead(tr[m])}
\* The probe sites passed while disabled between the call at i and its return.
UnfiredSitesIn(tr, i) == {m \in i..SegEnd(tr, i) : IsProbe(tr[m]) /\ ~tr[m].fired}

\* C17 as stated: a begin, commit or rollback whose probe is disabled makes
\* no transaction-depth observation.
C17_AsStated ==
    \A t \in Threads : LET tr == trace[t] IN
        \A i \in DoneCallsOf(tr, TxOps) :
            UnfiredSitesIn(tr, i) # {} => DepthReadsIn(tr, i) = {}

\* C17 amended: at a disabled probe site the argument closure is not run, so
\* no payload is built there; but begin_transaction, commit_transaction and
\* rollback_transaction observe the transaction depth exactly once per call
\* whether or not the transaction probes are enabled, and no other method
\* observes it.
C17_DisabledSiteCost ==
    \A t \in Threads : LET tr == trace[t] IN
    /\ \A j \in DOMAIN tr :
          (IsProbe(tr[j]) /\ ~tr[j].fired) =>
              tr[j] = Ev(tr[j].k, "probe", NoUid, NoConn, NoText, 0, 0, NoRes, FALSE)
    /\ \A i \in DoneCallsOf(tr, TxOps) : Cardinality(DepthReadsIn(tr, i)) = 1
    /\ Cardinality({j \in DOMAIN tr : IsDepthRead(tr[j])})
          = Cardinality(DoneCallsOf(tr, TxOps))

\* With the probes disabled a connection ran a query method and a
\* transaction method, after a probe was emitted for it while enabled.
C17_Witness ==
    \E t \in Threads : LET tr == trace[t] IN
    /\ \E i \in DoneCallsOf(tr, QueryOps) : UnfiredSitesIn(tr, i) # {}
    /\ \E i \in DoneCallsOf(tr, TxOps) :
          UnfiredSitesIn(tr, i) # {} /\ DepthReadsIn(tr, i) # {}
    /\ \E j \in DOMAIN tr : IsProbe(tr[j]) /\ tr[j].fired

\* ------------------------------------------------------------------ C18
\* The kinds of the probe sites passed between the call at index i of tr and
\* its return, in order.
SiteKindsIn(tr, i) ==
    LET sites == SelectSeq(SubSeq(tr, i, SegEnd(tr, i)), IsProbe) IN
    [m \in DOMAIN sites |-> sites[m].k]
\* The result the call at index i of tr returned.
ResultAt(tr, i) == tr[SegEnd(tr, i)].res

\* C18: the transaction probes do not depend on the delegated outcome.
\* Every begin_transaction call passes exactly one probe site, the
\* transaction-start one, and every commit_transaction or
\* rollback_transaction call exactly one, the transaction-done one, whether
\* the delegated call returned Ok or Err; each emits its probe if the probes
\* are enabled.
C18_ProbesIgnoreOutcome ==
    \A t \in Threads : LET tr == trace[t] IN
    /\ \A i \in DoneCallsOf(tr, {"begin_transaction"}) :
          SiteKindsIn(tr, i) = << "transaction__start" >>
    /\ \A i \in DoneCallsOf(tr, CloseOps) :
          SiteKindsIn(tr, i) = << "transaction__done" >>
    /\ enabled =>
          /\ Len(SelectSeq(tr, IsStartProbe))
                = Cardinality(DoneCallsOf(tr, {"begin_transaction"}))
          /\ Len(SelectSeq(tr, IsDoneProbe)) = Cardinality(DoneCallsOf(tr, CloseOps))

\* With the probes enabled a begin failed, a commit and a rollback failed
\* with no transaction open, and more transaction-done probes than
\* transaction-start probes were emitted.
C18_Witness ==
    LET tr == trace[TxThread] IN
    /\ enabled
    /\ \E i \in DoneCallsOf(tr, {"begin_transaction"}) : ResultAt(tr, i) = "Err"
    /\ \E i \in DoneCallsOf(tr, {"commit_transaction"}) : ResultAt(tr, i) = "Err"
    /\ \E i \in DoneCallsOf(tr, {"rollback_transaction"}) : ResultAt(tr, i) = "Err"
    /\ Len(SelectSeq(tr, IsDoneProbe)) > Len(SelectSeq(tr, IsStartProbe))
====
